---- MODULE Spec2Model ----
(***************************************************************************)
(* Model of the graph container (src/src/graph.rs) and of Karzanov's       *)
(* layered preflow engine built on it (src/src/karzanov.rs).               *)
(*                                                                         *)
(* Rust ids are zero-based; a Vec v is the sequence holding v[i] at        *)
(* position i + 1.  Option<T> is [tag |-> "None"] or                       *)
(* [tag |-> "Some", val |-> t].                                            *)
(***************************************************************************)
EXTENDS Integers, Sequences, FiniteSets, TLC

\* ------------------------------------------------------------------ bounds
\* container runs: at most MaxNodes add_node and MaxArcs connect calls
MaxNodes == 2
MaxArcs == 2
\* flow runs: networks of at most FlowNodes nodes and FlowArcs arcs, with
\* capacities 1 .. MaxCap
FlowNodes == 2
FlowArcs == 2
MaxCap == 2

\* ------------------------------------------------------------ Option, Vec
None == [tag |-> "None"]
Some(x) == [tag |-> "Some", val |-> x]
is_some(o) == o.tag = "Some"

\* v[i] of a Vec, i zero-based
At(v, i) == v[i + 1]
\* v with v[i] replaced by x
Put(v, i, x) == [v EXCEPT ![i + 1] = x]
\* the ids 0 .. len-1 of a Vec
Ids(v) == 0 .. (Len(v) - 1)
contains(v, x) == \E k \in 1 .. Len(v) : v[k] = x

\* ------------------------------------------------------- payload types
KarzanovNode_new == [stack |-> <<>>, grouped |-> FALSE]
KarzanovArc_new(capacity) == [capacity |-> capacity, flow |-> 0, open |-> TRUE]

\* ------------------------------------------------------- GraphNetwork
GraphNetwork_new ==
    [node_data |-> <<>>, arcs_into |-> <<>>, arcs_from |-> <<>>,
     arc_data |-> <<>>, arc_connections |-> <<>>]

is_node_in(g, node) ==
    Len(g.node_data) > node /\ is_some(At(g.node_data, node))

\* true iff some live arc of arcs_from[from] is also listed in arcs_into[into]
is_arc_in(g, from, into) ==
    IF ~is_node_in(g, from) \/ ~is_node_in(g, into) THEN FALSE
    ELSE \E k \in 1 .. Len(At(g.arcs_from, from)) :
            LET arc == At(g.arcs_from, from)[k] IN
            is_some(At(g.arc_data, arc)) /\ contains(At(g.arcs_into, into), arc)

data_of_node(g, node) == At(g.node_data, node)
data_of_arc(g, arc) == At(g.arc_data, arc)

\* the live arc ids of an adjacency log, in log order
RECURSIVE LiveOf(_, _)
LiveOf(g, log) ==
    IF log = <<>> THEN <<>>
    ELSE IF is_some(At(g.arc_data, Head(log)))
         THEN <<Head(log)>> \o LiveOf(g, Tail(log))
         ELSE LiveOf(g, Tail(log))

\* the arc ids of log that are also listed in other
RECURSIVE ListedIn(_, _)
ListedIn(log, other) ==
    IF log = <<>> THEN <<>>
    ELSE IF contains(other, Head(log))
         THEN <<Head(log)>> \o ListedIn(Tail(log), other)
         ELSE ListedIn(Tail(log), other)

\* the three traversals panic when a queried node is absent
between_nodes_panics(g, from, into) == ~is_node_in(g, from) \/ ~is_node_in(g, into)
between_nodes(g, from, into) ==
    ListedIn(LiveOf(g, At(g.arcs_from, from)), At(g.arcs_into, into))

from_node_panics(g, from) == ~is_node_in(g, from)
from_node(g, from) ==
    LET live == LiveOf(g, At(g.arcs_from, from)) IN
    [k \in 1 .. Len(live) |-> <<At(g.arc_connections, live[k]).into, live[k]>>]

into_node_panics(g, into) == ~is_node_in(g, into)
into_node(g, into) ==
    LET live == LiveOf(g, At(g.arcs_into, into)) IN
    [k \in 1 .. Len(live) |-> <<At(g.arc_connections, live[k]).from, live[k]>>]

\* add_node handing out the smallest tombstoned id again
add_node_reusing(g, data) ==
    LET free == {u \in Ids(g.node_data) : ~is_some(At(g.node_data, u))} IN
    IF free = {}
    THEN [net |-> [g EXCEPT !.node_data = Append(@, Some(data)),
                            !.arcs_into = Append(@, <<>>),
                            !.arcs_from = Append(@, <<>>)],
          ret |-> Len(g.node_data)]
    ELSE LET u == CHOOSE x \in free : \A y \in free : x <= y IN
         [net |-> [g EXCEPT !.node_data = Put(@, u, Some(data))], ret |-> u]

\* mutating operations return the new container and the call's return value
add_node(g, data) ==
    [net |-> [g EXCEPT !.node_data = Append(@, Some(data)),
                       !.arcs_into = Append(@, <<>>),
                       !.arcs_from = Append(@, <<>>)],
     ret |-> Len(g.node_data)]

\* remove_node without the presence check: indexing a missing slot panics
remove_node_unchecked(g, node) ==
    IF Len(g.node_data) <= node THEN [net |-> g, ret |-> [tag |-> "Panic"]]
    ELSE [net |-> [g EXCEPT !.arcs_into = Put(@, node, <<>>),
                            !.arcs_from = Put(@, node, <<>>),
                            !.node_data = Put(@, node, None)],
          ret |-> At(g.node_data, node)]

remove_node(g, node) ==
    IF ~is_node_in(g, node) THEN [net |-> g, ret |-> None]
    ELSE [net |-> [g EXCEPT !.arcs_into = Put(@, node, <<>>),
                            !.arcs_from = Put(@, node, <<>>),
                            !.node_data = Put(@, node, None)],
          ret |-> At(g.node_data, node)]

\* connect checking only that into is in range
connect_panics_in_range(g, from, into) == ~is_node_in(g, from) \/ Len(g.node_data) <= into

connect_panics(g, from, into) == ~is_node_in(g, from) \/ ~is_node_in(g, into)
connect(g, from, into, value) ==
    LET arc_id == Len(g.arc_data) IN
    [net |-> [g EXCEPT !.arc_data = Append(@, Some(value)),
                       !.arc_connections = Append(@, [from |-> from, into |-> into]),
                       !.arcs_from = Put(@, from, Append(At(@, from), arc_id)),
                       !.arcs_into = Put(@, into, Append(At(@, into), arc_id))],
     ret |-> arc_id]

disconnect(g, arc) ==
    IF Len(g.arc_data) <= arc THEN [net |-> g, ret |-> None]
    ELSE [net |-> [g EXCEPT !.arc_data = Put(@, arc, None)],
          ret |-> At(g.arc_data, arc)]

\* first loop of clean: live nodes are re-added in old-id order
RECURSIVE clean_nodes(_, _, _)
clean_nodes(g, old_node_id, acc) ==
    IF old_node_id >= Len(g.node_data) THEN acc
    ELSE LET node_data == At(g.node_data, old_node_id) IN
         IF is_some(node_data)
         THEN LET r == add_node(acc.brand_new, node_data.val) IN
              clean_nodes(g, old_node_id + 1,
                          [brand_new |-> r.net,
                           old_new_map |-> acc.old_new_map @@ (old_node_id :> r.ret),
                           panicked |-> FALSE])
         ELSE clean_nodes(g, old_node_id + 1, acc)

\* the second loop of clean with the endpoints handed to connect in swapped order
RECURSIVE clean_arcs_swapped(_, _, _)
clean_arcs_swapped(g, old_arc_id, acc) ==
    IF old_arc_id >= Len(g.arc_data) \/ acc.panicked THEN acc
    ELSE LET arc_data == At(g.arc_data, old_arc_id)
             c == At(g.arc_connections, old_arc_id) IN
         IF is_some(arc_data)
         THEN IF c.from \notin DOMAIN acc.old_new_map \/ c.into \notin DOMAIN acc.old_new_map
              THEN [acc EXCEPT !.panicked = TRUE]
              ELSE clean_arcs_swapped(g, old_arc_id + 1,
                     [acc EXCEPT !.brand_new =
                        connect(@, acc.old_new_map[c.into], acc.old_new_map[c.from],
                                arc_data.val).net])
         ELSE clean_arcs_swapped(g, old_arc_id + 1, acc)

\* second loop of clean: live arcs are re-connected in old-id order;
\* old_new_map[&from] panics on an endpoint that was not re-added
RECURSIVE clean_arcs(_, _, _)
clean_arcs(g, old_arc_id, acc) ==
    IF old_arc_id >= Len(g.arc_data) \/ acc.panicked THEN acc
    ELSE LET arc_data == At(g.arc_data, old_arc_id)
             c == At(g.arc_connections, old_arc_id) IN
         IF is_some(arc_data)
         THEN IF c.from \notin DOMAIN acc.old_new_map \/ c.into \notin DOMAIN acc.old_new_map
              THEN [acc EXCEPT !.panicked = TRUE]
              ELSE clean_arcs(g, old_arc_id + 1,
                     [acc EXCEPT !.brand_new =
                        connect(@, acc.old_new_map[c.from], acc.old_new_map[c.into],
                                arc_data.val).net])
         ELSE clean_arcs(g, old_arc_id + 1, acc)

clean(g) ==
    clean_arcs(g, 0,
        clean_nodes(g, 0, [brand_new |-> GraphNetwork_new,
                           old_new_map |-> <<>>,
                           panicked |-> FALSE]))

\* add_nodes / bulk_connect: repeated add_node / connect
RECURSIVE add_nodes(_, _)
add_nodes(g, data) ==
    IF data = <<>> THEN g ELSE add_nodes(add_node(g, Head(data)).net, Tail(data))

\* arcs is a sequence of <<from, into, value>>; every endpoint must be present
RECURSIVE bulk_connect(_, _)
bulk_connect(g, arcs) ==
    IF arcs = <<>> THEN g
    ELSE bulk_connect(connect(g, Head(arcs)[1], Head(arcs)[2], Head(arcs)[3]).net,
                      Tail(arcs))

\* ----------------------------------------------------------- u32 values
\* A u32 value v is held as v when v < 2^31 and as v - 2^32 otherwise (its
\* two's-complement reading), so that wrapping arithmetic is plain + and -.
u32_lt(a, b) == IF (a >= 0) = (b >= 0) THEN a < b ELSE a >= 0
u32_le(a, b) == a = b \/ u32_lt(a, b)
\* a + b overflows u32 / a - b underflows u32
add_overflows(a, b) ==
    IF a >= 0 /\ b >= 0 THEN FALSE
    ELSE IF a < 0 /\ b < 0 THEN TRUE
    ELSE a + b >= 0
sub_overflows(a, b) == u32_lt(a, b)

\* min with its branches exchanged
min_swapped(a, b) == IF u32_lt(a, b) THEN b ELSE a
\* utils::min at type u32
min(a, b) == IF u32_lt(a, b) THEN a ELSE b

\* ----------------------------------------------------------- flow engine
\* clean_network resetting the nodes only
clean_network_nodes_only(g) ==
    [g EXCEPT
       !.node_data = [k \in 1 .. Len(@) |->
            IF is_some(@[k]) THEN Some([stack |-> <<>>, grouped |-> FALSE]) ELSE @[k]]]

clean_network(g) ==
    [g EXCEPT
       !.node_data = [k \in 1 .. Len(@) |->
            IF is_some(@[k]) THEN Some([stack |-> <<>>, grouped |-> FALSE]) ELSE @[k]],
       !.arc_data = [k \in 1 .. Len(@) |->
            IF is_some(@[k])
            THEN Some([@[k].val EXCEPT !.flow = 0, !.open = TRUE])
            ELSE @[k]]]

set_grouped(g, node) ==
    [g EXCEPT !.node_data = Put(@, node, Some([At(@, node).val EXCEPT !.grouped = TRUE]))]

\* inner loop of the layering (lines 68-74) over the arcs of one node;
\* acc = [net, next_layer, panicked]; unwrap() of a removed node panics
RECURSIVE group_arcs(_, _)
group_arcs(arcs, acc) ==
    IF arcs = <<>> \/ acc.panicked THEN acc
    ELSE LET dist_node_id == Head(arcs)[1] IN
         IF ~is_some(data_of_node(acc.net, dist_node_id))
         THEN [acc EXCEPT !.panicked = TRUE]
         ELSE IF data_of_node(acc.net, dist_node_id).val.grouped
         THEN group_arcs(Tail(arcs), acc)
         ELSE group_arcs(Tail(arcs),
                [acc EXCEPT !.net = set_grouped(@, dist_node_id),
                            !.next_layer = Append(@, dist_node_id)])

\* loop over the nodes of the last layer (lines 66-75)
RECURSIVE group_layer(_, _)
group_layer(layer, acc) ==
    IF layer = <<>> \/ acc.panicked THEN acc
    ELSE group_layer(Tail(layer), group_arcs(from_node(acc.net, Head(layer)), acc))

\* the loop of lines 63-81; acc = [net, layers, panicked]
RECURSIVE group_loop(_)
group_loop(acc) ==
    LET r == group_layer(acc.layers[Len(acc.layers)],
                         [net |-> acc.net, next_layer |-> <<>>, panicked |-> FALSE]) IN
    IF r.panicked THEN [acc EXCEPT !.panicked = TRUE]
    ELSE IF Len(r.next_layer) = 0 THEN [acc EXCEPT !.net = r.net]
    ELSE group_loop([net |-> r.net, layers |-> Append(acc.layers, r.next_layer),
                     panicked |-> FALSE])

\* the comparator of layer.sort_by (lines 88-96): a sorts before b
layer_less(g, a, b) == is_arc_in(g, a, b) /\ ~is_arc_in(g, b, a)

\* slice::sort_by on a slice of at most 20 elements is an insertion sort:
\* the element at position i moves left while it is less than its left neighbour
RECURSIVE insert_tail(_, _, _)
insert_tail(g, v, j) ==
    IF j > 1 /\ layer_less(g, v[j], v[j - 1])
    THEN insert_tail(g, [v EXCEPT ![j - 1] = v[j], ![j] = v[j - 1]], j - 1)
    ELSE v

RECURSIVE insertion_sort(_, _, _)
insertion_sort(g, v, i) ==
    IF i > Len(v) THEN v ELSE insertion_sort(g, insert_tail(g, v, i), i + 1)

sort_layer(g, layer) == insertion_sort(g, layer, 2)

\* the layering without the check of its last layer
grouping_nodes_unchecked(source_id, sink_id, g) ==
    IF ~is_node_in(g, source_id)
    THEN [net |-> g, layers |-> <<>>, panicked |-> TRUE]
    ELSE LET r == group_loop([net |-> g, layers |-> << <<source_id>> >>,
                              panicked |-> FALSE]) IN
         IF r.panicked THEN r
         ELSE [r EXCEPT !.layers =
                   [k \in 1 .. Len(r.layers) |-> sort_layer(r.net, r.layers[k])]]

\* returns [net, layers, panicked]
grouping_nodes_by_layer(source_id, sink_id, g) ==
    IF ~is_node_in(g, source_id)
    THEN [net |-> g, layers |-> <<>>, panicked |-> TRUE]
    ELSE LET r == group_loop([net |-> g, layers |-> << <<source_id>> >>,
                              panicked |-> FALSE]) IN
         IF r.panicked THEN r
         ELSE IF r.layers[Len(r.layers)] # <<sink_id>>
         THEN [r EXCEPT !.panicked = TRUE]
         ELSE [r EXCEPT !.layers =
                   [k \in 1 .. Len(r.layers) |-> sort_layer(r.net, r.layers[k])]]

\* An arithmetic overflow panics when the build checks overflow and wraps
\* otherwise.  The passes below carry acc.overflowed (some operation
\* overflowed) and acc.panicked (the pass stopped in a panic); `checks` says
\* whether overflow panics.
Flag(acc, o, checks) ==
    [acc EXCEPT !.overflowed = @ \/ o, !.panicked = @ \/ (o /\ checks)]

set_flow(g, arc_id, flow) ==
    [g EXCEPT !.arc_data = Put(@, arc_id, Some([At(@, arc_id).val EXCEPT !.flow = flow]))]

set_closed(g, arc_id) ==
    [g EXCEPT !.arc_data = Put(@, arc_id, Some([At(@, arc_id).val EXCEPT !.open = FALSE]))]

\* a push that records one unit more than was pushed across the arc
stack_push_more(g, node_id, entry) ==
    [g EXCEPT !.node_data =
        Put(@, node_id,
            Some([At(@, node_id).val EXCEPT !.stack = Append(@, <<entry[1], entry[2] + 1>>)]))]

stack_push(g, node_id, entry) ==
    [g EXCEPT !.node_data =
        Put(@, node_id, Some([At(@, node_id).val EXCEPT !.stack = Append(@, entry)]))]

\* a pop that removes the oldest entry instead of the newest
stack_pop_bottom(g, node_id) ==
    [g EXCEPT !.node_data =
        Put(@, node_id,
            Some([At(@, node_id).val EXCEPT !.stack = SubSeq(@, 2, Len(@))]))]

stack_pop(g, node_id) ==
    [g EXCEPT !.node_data =
        Put(@, node_id,
            Some([At(@, node_id).val EXCEPT !.stack = SubSeq(@, 1, Len(@) - 1)]))]

\* sum of arc.flow over a traversal; acc = [val, overflowed]
RECURSIVE flux_sum(_, _, _)
flux_sum(g, arcs, acc) ==
    IF arcs = <<>> THEN acc
    ELSE LET flow == data_of_arc(g, Head(arcs)[2]).val.flow IN
         flux_sum(g, Tail(arcs),
                  [val |-> acc.val + flow,
                   overflowed |-> acc.overflowed \/ add_overflows(acc.val, flow)])

\* the incoming flux summed over the outgoing arcs
incoming_flux_over_outgoing(node_id, g) ==
    flux_sum(g, from_node(g, node_id), [val |-> 0, overflowed |-> FALSE])

incoming_flux_of_flow(node_id, g) ==
    flux_sum(g, into_node(g, node_id), [val |-> 0, overflowed |-> FALSE])

outgoing_flux_of_flow(node_id, g) ==
    flux_sum(g, from_node(g, node_id), [val |-> 0, overflowed |-> FALSE])

\* maximize_outgoing leaving the arcs of the source as they are
saturate_source_none(arcs, acc, checks) == acc

\* lines 134-143: saturate the arcs leaving the source;
\* acc = [net, panicked, overflowed]
RECURSIVE saturate_source(_, _, _)
saturate_source(arcs, acc, checks) ==
    IF arcs = <<>> \/ acc.panicked THEN acc
    ELSE LET node_id == Head(arcs)[1]
             arc_id == Head(arcs)[2]
             arc == data_of_arc(acc.net, arc_id).val
             capacity == arc.capacity
             delta == capacity - arc.flow
             a1 == Flag(acc, sub_overflows(capacity, arc.flow), checks) IN
         IF a1.panicked THEN a1
         ELSE IF ~is_some(data_of_node(acc.net, node_id))
         THEN [a1 EXCEPT !.net = set_flow(@, arc_id, capacity), !.panicked = TRUE]
         ELSE saturate_source(Tail(arcs),
                [a1 EXCEPT !.net =
                    IF delta # 0
                    THEN stack_push(set_flow(@, arc_id, capacity), node_id,
                                    <<arc_id, delta>>)
                    ELSE set_flow(@, arc_id, capacity)],
                checks)

\* lines 156-165: flux already held by closed or saturated outgoing arcs;
\* acc = [val, overflowed]
RECURSIVE consumed_flux_of(_, _, _)
consumed_flux_of(g, arcs, acc) ==
    IF arcs = <<>> THEN acc
    ELSE LET arc == data_of_arc(g, Head(arcs)[2]).val IN
         IF arc.open /\ u32_lt(arc.flow, arc.capacity)
         THEN consumed_flux_of(g, Tail(arcs), acc)
         ELSE consumed_flux_of(g, Tail(arcs),
                [val |-> acc.val + arc.flow,
                 overflowed |-> acc.overflowed \/ add_overflows(acc.val, arc.flow)])

\* lines 168-194: distribute the flux over the open, unsaturated arcs;
\* acc = [net, consumed_flux, panicked, overflowed]
RECURSIVE distribute(_, _, _, _)
distribute(arcs, incoming_flux, acc, checks) ==
    IF arcs = <<>> \/ acc.panicked THEN acc
    ELSE LET node_id == Head(arcs)[1]
             arc_id == Head(arcs)[2]
             arc == data_of_arc(acc.net, arc_id).val
             capacity == arc.capacity IN
         IF ~arc.open \/ ~u32_lt(arc.flow, capacity)
         THEN distribute(Tail(arcs), incoming_flux, acc, checks)
         ELSE LET available_flux == incoming_flux - acc.consumed_flux
                  a1 == Flag(acc, sub_overflows(incoming_flux, acc.consumed_flux), checks)
              IN
              IF a1.panicked THEN a1
              ELSE IF available_flux = 0
              THEN distribute(Tail(arcs), incoming_flux,
                              [a1 EXCEPT !.net = set_flow(@, arc_id, 0)], checks)
              ELSE LET preflow == min(capacity, available_flux)
                       delta == preflow - arc.flow
                       a2 == Flag(a1, sub_overflows(preflow, arc.flow), checks)
                       a3 == Flag(a2, add_overflows(acc.consumed_flux, preflow), checks)
                   IN
                   IF a2.panicked THEN a2
                   ELSE IF a3.panicked
                   THEN [a3 EXCEPT !.net = set_flow(@, arc_id, preflow)]
                   ELSE IF delta # 0 /\ ~is_some(data_of_node(acc.net, node_id))
                   THEN [a3 EXCEPT !.net = set_flow(@, arc_id, preflow),
                                   !.consumed_flux = @ + preflow,
                                   !.panicked = TRUE]
                   ELSE distribute(Tail(arcs), incoming_flux,
                          [a3 EXCEPT
                             !.consumed_flux = @ + preflow,
                             !.net = IF delta # 0
                                     THEN stack_push(set_flow(@, arc_id, preflow), node_id,
                                                     <<arc_id, delta>>)
                                     ELSE set_flow(@, arc_id, preflow)],
                          checks)

\* lines 149-195 for one node; acc = [net, panicked, overflowed]
maximize_node(node_id, acc, checks) ==
    LET incoming_flux == incoming_flux_of_flow(node_id, acc.net)
        arcs == from_node(acc.net, node_id)
        consumed_flux == consumed_flux_of(acc.net, arcs, [val |-> 0, overflowed |-> FALSE])
        a1 == Flag(acc, incoming_flux.overflowed, checks)
        a2 == Flag(a1, consumed_flux.overflowed, checks) IN
    IF a1.panicked THEN a1
    ELSE IF a2.panicked THEN a2
    ELSE LET r == distribute(arcs, incoming_flux.val,
                             [net |-> a2.net, consumed_flux |-> consumed_flux.val,
                              panicked |-> FALSE, overflowed |-> a2.overflowed],
                             checks) IN
         [net |-> r.net, panicked |-> r.panicked, overflowed |-> r.overflowed]

RECURSIVE maximize_nodes(_, _, _)
maximize_nodes(nodes, acc, checks) ==
    IF nodes = <<>> \/ acc.panicked THEN acc
    ELSE maximize_nodes(Tail(nodes), maximize_node(Head(nodes), acc, checks), checks)

\* the nodes of layers.iter().skip(n), layer by layer
RECURSIVE skip_layers(_, _)
skip_layers(layers, n) ==
    IF n >= Len(layers) THEN <<>>
    ELSE layers[n + 1] \o skip_layers(layers, n + 1)

\* returns [net, panicked, overflowed]
maximize_outgoing(layers, start_layer, g, checks) ==
    LET source_node_id == layers[1][1]
        a1 == saturate_source(from_node(g, source_node_id),
                 [net |-> g, panicked |-> FALSE, overflowed |-> FALSE], checks)
        start == IF start_layer < 1 THEN 1 ELSE start_layer IN
    maximize_nodes(skip_layers(layers, start), a1, checks)

\* a deficient node left as it is
rollback_none(node_id, outgoing_flux, acc, checks) == acc

\* lines 227-244: pop the rollback stack until the node is balanced;
\* acc = [net, incoming_flux, panicked, overflowed]
RECURSIVE rollback(_, _, _, _)
rollback(node_id, outgoing_flux, acc, checks) ==
    IF acc.panicked \/ u32_le(acc.incoming_flux, outgoing_flux) THEN acc
    ELSE LET stack == data_of_node(acc.net, node_id).val.stack IN
         IF Len(stack) = 0 THEN [acc EXCEPT !.panicked = TRUE]
         ELSE LET arc_id == stack[Len(stack)][1]
                  delta == stack[Len(stack)][2]
                  popped == stack_pop(acc.net, node_id)
                  arc == data_of_arc(popped, arc_id).val
                  max_decrease == acc.incoming_flux - outgoing_flux
                  dec == min(delta, max_decrease)
                  a1 == Flag([acc EXCEPT !.net = popped],
                             sub_overflows(arc.flow, dec), checks) IN
              IF a1.panicked THEN a1
              ELSE rollback(node_id, outgoing_flux,
                            [a1 EXCEPT !.net = set_flow(@, arc_id, arc.flow - dec),
                                       !.incoming_flux = @ - dec],
                            checks)

\* balance_incoming leaving the incoming arcs open
close_arcs_none(g, arcs) == g

\* lines 248-252: close every live incoming arc of the node
RECURSIVE close_arcs(_, _)
close_arcs(g, arcs) ==
    IF arcs = <<>> THEN g ELSE close_arcs(set_closed(g, Head(arcs)[2]), Tail(arcs))

\* lines 211-252 for the node node_id of layer d;
\* acc = [net, last_deficient_layer, panicked, overflowed]
balance_node(d, node_id, acc, checks) ==
    LET outgoing_flux == outgoing_flux_of_flow(node_id, acc.net)
        incoming_flux == incoming_flux_of_flow(node_id, acc.net)
        a1 == Flag(acc, outgoing_flux.overflowed, checks)
        a2 == Flag(a1, incoming_flux.overflowed, checks) IN
    IF a1.panicked THEN a1
    ELSE IF a2.panicked THEN a2
    ELSE IF incoming_flux.val = outgoing_flux.val THEN a2
    ELSE IF u32_lt(incoming_flux.val, outgoing_flux.val) THEN [a2 EXCEPT !.panicked = TRUE]
    ELSE LET a3 == [a2 EXCEPT !.last_deficient_layer =
                                   IF is_some(@) THEN @ ELSE Some(d)]
             r == rollback(node_id, outgoing_flux.val,
                           [net |-> a3.net, incoming_flux |-> incoming_flux.val,
                            panicked |-> FALSE, overflowed |-> a3.overflowed],
                           checks) IN
         IF r.panicked
         THEN [a3 EXCEPT !.net = r.net, !.panicked = TRUE, !.overflowed = r.overflowed]
         ELSE [a3 EXCEPT !.net = close_arcs(r.net, into_node(r.net, node_id)),
                         !.overflowed = r.overflowed]

RECURSIVE balance_layer(_, _, _, _)
balance_layer(d, layer, acc, checks) ==
    IF layer = <<>> \/ acc.panicked THEN acc
    ELSE balance_layer(d, Tail(layer), balance_node(d, Head(layer), acc, checks), checks)

\* layers.iter().enumerate().skip(1).rev().skip(1): d = len-2 down to 1
RECURSIVE balance_layers(_, _, _, _)
balance_layers(layers, d, acc, checks) ==
    IF d < 1 \/ acc.panicked THEN acc
    ELSE balance_layers(layers, d - 1, balance_layer(d, layers[d + 1], acc, checks), checks)

\* returns [net, ret, panicked, overflowed]; ret is the Option<usize> returned
balance_incoming(layers, g, checks) ==
    LET r == balance_layers(layers, Len(layers) - 2,
                 [net |-> g, last_deficient_layer |-> None,
                  panicked |-> FALSE, overflowed |-> FALSE], checks) IN
    [net |-> r.net,
     ret |-> IF is_some(r.last_deficient_layer)
             THEN Some(r.last_deficient_layer.val - 1) ELSE None,
     panicked |-> r.panicked,
     overflowed |-> r.overflowed]

\* the loop without its stagnation guard
different_always(g, flow_snapshot) == TRUE
\* lines 283-294: some live arc's flow differs from (or is missing in) the snapshot
different(g, flow_snapshot) ==
    \E arc_id \in Ids(g.arc_data) :
        /\ is_some(At(g.arc_data, arc_id))
        /\ \/ arc_id \notin DOMAIN flow_snapshot
           \/ At(g.arc_data, arc_id).val.flow # flow_snapshot[arc_id]

\* lines 299-303: flow_snapshot.insert for every live arc
take_snapshot(g, flow_snapshot) ==
    LET live == {arc_id \in Ids(g.arc_data) : is_some(At(g.arc_data, arc_id))} IN
    [arc_id \in live \cup DOMAIN flow_snapshot |->
        IF arc_id \in live THEN At(g.arc_data, arc_id).val.flow
        ELSE flow_snapshot[arc_id]]

\* ------------------------------------------------------------------ state
VARIABLES
    network,          \* the GraphNetwork<KarzanovNode, KarzanovArc>
    pc,               \* "idle", "maximize", "balance", "done" or "panicked"
    call,             \* the last container call: [op, args, ret]
    input,            \* the network handed to maxflow
    source_id,        \* maxflow's arguments
    sink_id,
    layers,           \* maxflow's locals
    start_layer,
    new_start_layer,
    flow_snapshot

vars == <<network, pc, call, input, source_id, sink_id, layers, start_layer,
          new_start_layer, flow_snapshot>>

flow_vars == <<input, source_id, sink_id, layers, start_layer, new_start_layer,
               flow_snapshot>>

NoCall == [op |-> "none", args |-> <<>>, ret |-> None]
Panic == [tag |-> "Panic"]

InitLocals ==
    /\ pc = "idle"
    /\ call = NoCall
    /\ input = GraphNetwork_new
    /\ source_id = 0
    /\ sink_id = 0
    /\ layers = <<>>
    /\ start_layer = 0
    /\ new_start_layer = None
    /\ flow_snapshot = <<>>

\* ------------------------------------------------------ container actions
\* As in tests::test_network, the container holds plain numbers: every node
\* and arc is given its creation index as payload, so that a payload names
\* the element it was handed in with.
Init ==
    /\ network = GraphNetwork_new
    /\ InitLocals

AddNode ==
    /\ pc = "idle"
    /\ Len(network.node_data) < MaxNodes
    /\ LET r == add_node(network, Len(network.node_data)) IN
       /\ network' = r.net
       /\ call' = [op |-> "add_node", args |-> <<>>, ret |-> Some(r.ret)]
    /\ UNCHANGED <<pc, flow_vars>>

RemoveNode ==
    /\ pc = "idle"
    /\ \E node \in 0 .. MaxNodes :
         LET r == remove_node(network, node) IN
         /\ network' = r.net
         /\ call' = [op |-> "remove_node", args |-> <<node>>, ret |-> r.ret]
    /\ UNCHANGED <<pc, flow_vars>>

Connect ==
    /\ pc = "idle"
    /\ Len(network.arc_data) < MaxArcs
    /\ \E from \in 0 .. MaxNodes, into \in 0 .. MaxNodes :
         IF connect_panics(network, from, into)
         THEN /\ pc' = "panicked"
              /\ call' = [op |-> "connect", args |-> <<from, into>>, ret |-> Panic]
              /\ UNCHANGED network
         ELSE LET r == connect(network, from, into, Len(network.arc_data)) IN
              /\ network' = r.net
              /\ call' = [op |-> "connect", args |-> <<from, into>>, ret |-> Some(r.ret)]
              /\ UNCHANGED pc
    /\ UNCHANGED flow_vars

Disconnect ==
    /\ pc = "idle"
    /\ \E arc \in 0 .. MaxArcs :
         LET r == disconnect(network, arc) IN
         /\ network' = r.net
         /\ call' = [op |-> "disconnect", args |-> <<arc>>, ret |-> r.ret]
    /\ UNCHANGED <<pc, flow_vars>>

\* clean consumes the container: the run ends with the rebuilt one in network
\* and the consumed one in input
Clean ==
    /\ pc = "idle"
    /\ LET r == clean(network) IN
       IF r.panicked
       THEN /\ pc' = "panicked"
            /\ call' = [op |-> "clean", args |-> <<>>, ret |-> Panic]
            /\ UNCHANGED <<network, input>>
       ELSE /\ pc' = "cleaned"
            /\ network' = r.brand_new
            /\ input' = network
            /\ call' = [op |-> "clean", args |-> <<>>, ret |-> None]
    /\ UNCHANGED <<source_id, sink_id, layers, start_layer, new_start_layer, flow_snapshot>>

Next == AddNode \/ RemoveNode \/ Connect \/ Disconnect \/ Clean

Spec == Init /\ [][Next]_vars

\* ----------------------------------------------------------- flow actions
\* main.rs: the four networks the driver solves, each from node 0 to its last node
nodes_of(n) == add_nodes(GraphNetwork_new, [k \in 1 .. n |-> KarzanovNode_new])
arcs_of(list) == [k \in 1 .. Len(list) |-> <<list[k][1], list[k][2], KarzanovArc_new(list[k][3])>>]

network_instance1 ==
    bulk_connect(nodes_of(6),
        arcs_of(<< <<0, 1, 2>>, <<0, 2, 3>>, <<1, 3, 2>>, <<2, 3, 4>>, <<2, 4, 2>>,
                   <<3, 5, 3>>, <<4, 5, 2>> >>))

network_instance2 ==
    bulk_connect(nodes_of(9),
        arcs_of(<< <<0, 1, 1>>, <<0, 3, 8>>, <<1, 2, 2>>, <<1, 4, 1>>, <<2, 5, 1>>,
                   <<3, 1, 4>>, <<3, 4, 2>>, <<3, 6, 4>>, <<4, 5, 3>>, <<5, 8, 4>>,
                   <<6, 7, 2>>, <<6, 5, 1>>, <<7, 8, 2>> >>))

network_instance3 ==
    bulk_connect(nodes_of(3), arcs_of(<< <<0, 1, 1>>, <<1, 2, 2>> >>))

network_instance4 ==
    bulk_connect(nodes_of(2), arcs_of(<< <<0, 1, 1>> >>))

\* two further inputs: a strictly layered network in which the first-come
\* distribution at node 1 blocks the second path, and a network with arcs
\* inside layer 1
network_crossing ==
    bulk_connect(nodes_of(6),
        arcs_of(<< <<0, 1, 1>>, <<0, 2, 1>>, <<1, 3, 1>>, <<1, 4, 1>>, <<2, 3, 1>>,
                   <<3, 5, 1>>, <<4, 5, 1>> >>))

network_same_layer ==
    bulk_connect(nodes_of(5),
        arcs_of(<< <<0, 1, 1>>, <<0, 2, 1>>, <<0, 3, 1>>, <<1, 2, 1>>, <<1, 3, 1>>,
                   <<3, 4, 1>> >>))

\* a network whose layer 1 is discovered as 1, 2, 3 and holds the arc 3 -> 1
network_unordered_layer ==
    bulk_connect(nodes_of(5),
        arcs_of(<< <<0, 1, 1>>, <<0, 2, 1>>, <<0, 3, 1>>, <<3, 1, 1>>, <<1, 4, 1>>,
                   <<2, 4, 1>> >>))

Instances ==
    {network_instance1, network_instance2, network_instance3, network_instance4,
     network_crossing, network_same_layer, network_unordered_layer}

\* a flow run starts from one of the instances or from a network built, as in
\* main.rs, by add_nodes followed by bulk_connect within the bounds
InitFlow ==
    /\ network \in {GraphNetwork_new} \cup Instances
    /\ InitLocals

BuildNode ==
    /\ pc = "idle"
    /\ Len(network.node_data) < FlowNodes
    /\ Len(network.arc_data) = 0
    /\ network' = add_node(network, KarzanovNode_new).net
    /\ UNCHANGED <<pc, call, flow_vars>>

BuildArc ==
    /\ pc = "idle"
    /\ Len(network.node_data) <= FlowNodes
    /\ Len(network.arc_data) < FlowArcs
    /\ \E from \in Ids(network.node_data), into \in Ids(network.node_data),
          capacity \in 1 .. MaxCap :
         network' = connect(network, from, into, KarzanovArc_new(capacity)).net
    /\ UNCHANGED <<pc, call, flow_vars>>

Maxflow ==
    /\ pc = "idle"
    /\ \E source \in 0 .. Len(network.node_data), sink \in 0 .. Len(network.node_data) :
         LET r == grouping_nodes_by_layer(source, sink, clean_network(network)) IN
         /\ input' = network
         /\ source_id' = source
         /\ sink_id' = sink
         /\ network' = r.net
         /\ layers' = r.layers
         /\ pc' = IF r.panicked THEN "panicked" ELSE "maximize"
    /\ start_layer' = 0
    /\ flow_snapshot' = <<>>
    /\ UNCHANGED <<call, new_start_layer>>

\* maxflow called again on the network a returned run left behind, with the
\* same source and sink (lines 264-271: clean_network, then the layering)
MaxflowAgain ==
    /\ pc = "done"
    /\ LET r == grouping_nodes_by_layer(source_id, sink_id, clean_network(network)) IN
         /\ input' = network
         /\ network' = r.net
         /\ layers' = r.layers
         /\ pc' = IF r.panicked THEN "panicked" ELSE "maximize"
    /\ start_layer' = 0
    /\ flow_snapshot' = <<>>
    /\ new_start_layer' = None
    /\ UNCHANGED <<call, source_id, sink_id>>

\* an overflowing pass either wraps or, in a build that checks overflow, panics
Outcomes(wrapped, checked) == IF wrapped.overflowed THEN {wrapped, checked} ELSE {wrapped}

MaximizeOutgoing ==
    /\ pc = "maximize"
    /\ \E r \in Outcomes(maximize_outgoing(layers, start_layer, network, FALSE),
                         maximize_outgoing(layers, start_layer, network, TRUE)) :
         /\ network' = r.net
         /\ pc' = IF r.panicked THEN "panicked" ELSE "balance"
    /\ UNCHANGED <<call, flow_vars>>

BalanceIncoming ==
    /\ pc = "balance"
    /\ \E r \in Outcomes(balance_incoming(layers, network, FALSE),
                         balance_incoming(layers, network, TRUE)) :
         /\ network' = r.net
         /\ IF r.panicked
            THEN /\ pc' = "panicked"
                 /\ UNCHANGED <<new_start_layer, start_layer, flow_snapshot>>
            ELSE /\ new_start_layer' = r.ret
                 /\ IF ~is_some(r.ret)
                    THEN /\ pc' = "done"
                         /\ UNCHANGED <<start_layer, flow_snapshot>>
                    ELSE /\ start_layer' = r.ret.val
                         /\ IF different(r.net, flow_snapshot)
                            THEN /\ pc' = "maximize"
                                 /\ flow_snapshot' = take_snapshot(r.net, flow_snapshot)
                            ELSE /\ pc' = "done"
                                 /\ UNCHANGED flow_snapshot
    /\ UNCHANGED <<call, input, source_id, sink_id, layers>>

NextFlow ==
    BuildNode \/ BuildArc \/ Maxflow \/ MaxflowAgain \/ MaximizeOutgoing \/ BalanceIncoming

SpecFlow == InitFlow /\ [][NextFlow]_vars

\* A step of the loop: MaximizeOutgoing and BalanceIncoming are enabled exactly
\* when pc is "maximize" or "balance", and each of them changes pc.
LoopStep ==
    /\ pc \in {"maximize", "balance"}
    /\ pc' \in {"maximize", "balance", "done", "panicked"}

\* the loop of maxflow is sequential code: a started run keeps stepping
SpecFlowFair == SpecFlow /\ WF_pc(LoopStep)

\* ------------------------------------------------- reference definitions
LiveNodes(g) == {u \in Ids(g.node_data) : is_some(At(g.node_data, u))}
LiveArcs(g) == {a \in Ids(g.arc_data) : is_some(At(g.arc_data, a))}
From(g, a) == At(g.arc_connections, a).from
Into(g, a) == At(g.arc_connections, a).into
\* an arc is present when its slot and both endpoint slots are live
PresentArcs(g) == {a \in LiveArcs(g) : From(g, a) \in LiveNodes(g) /\ Into(g, a) \in LiveNodes(g)}

RECURSIVE SumOver(_, _)
SumOver(S, f) ==
    IF S = {} THEN 0 ELSE LET x == CHOOSE y \in S : TRUE IN f[x] + SumOver(S \ {x}, f)

CapacityOf(g) == [a \in LiveArcs(g) |-> At(g.arc_data, a).val.capacity]
FlowOf(g) == [a \in LiveArcs(g) |-> At(g.arc_data, a).val.flow]

InFlux(g, u) == SumOver({a \in LiveArcs(g) : Into(g, a) = u}, FlowOf(g))
OutFlux(g, u) == SumOver({a \in LiveArcs(g) : From(g, a) = u}, FlowOf(g))

\* capacity of the cut (S, rest)
CutCapacity(g, S) ==
    SumOver({a \in PresentArcs(g) : From(g, a) \in S /\ Into(g, a) \notin S}, CapacityOf(g))

\* max-flow min-cut: the maximum flow value from s to t (s # t)
MaxFlowValue(g, s, t) ==
    LET cuts == {S \in SUBSET (LiveNodes(g) \ {t}) : s \in S}
        best == CHOOSE S \in cuts : \A T \in cuts : CutCapacity(g, S) <= CutCapacity(g, T)
    IN CutCapacity(g, best)

\* the last non-empty layer of the breadth-first layering from the frontier
RECURSIVE LastLayer(_, _, _)
LastLayer(g, frontier, placed) ==
    LET next == {Into(g, a) : a \in {b \in LiveArcs(g) : From(g, b) \in frontier}} \ placed IN
    IF next = {} THEN frontier ELSE LastLayer(g, next, placed \cup next)

WellLayered(g, s, t) == s \in LiveNodes(g) /\ LastLayer(g, {s}, {s}) = {t}

Returned == pc = "done"
Started == pc \in {"maximize", "balance", "done"}

\* ------------------------------------------------------------------ claims
\* C1: when maxflow returns, the flow on the live arcs into the sink is the
\* maximum flow value of the input network from source to sink.
C1_MaximumFlow ==
    (Returned /\ source_id # sink_id) =>
        InFlux(network, sink_id) = MaxFlowValue(input, source_id, sink_id)

\* C2: when maxflow returns, every live node other than the source and the
\* sink has incoming flux equal to outgoing flux.
C2_Conservation ==
    Returned =>
        \A u \in LiveNodes(network) \ {source_id, sink_id} :
            InFlux(network, u) = OutFlux(network, u)

\* C3: when maxflow returns, every live arc has 0 <= flow <= capacity, and
\* its capacity is the one it had before the call.
C3_CapacityRespect ==
    Returned =>
        /\ LiveArcs(network) = LiveArcs(input)
        /\ \A a \in LiveArcs(network) :
             LET arc == At(network.arc_data, a).val IN
             /\ arc.flow >= 0
             /\ arc.flow <= arc.capacity
             /\ arc.capacity = At(input.arc_data, a).val.capacity

\* a returned run in which a rollback lowered an arc below its capacity
C3_Witness ==
    /\ Returned
    /\ \E a \in LiveArcs(network) :
         LET arc == At(network.arc_data, a).val IN
         ~arc.open /\ arc.flow > 0 /\ arc.flow < arc.capacity

\* C4: once the maximize-outgoing / balance-incoming loop is entered it
\* eventually exits (maxflow returns, or aborts in a panic).
C4_Termination == (pc \in {"maximize", "balance"}) ~> (pc \in {"done", "panicked"})

\* a run that went round the loop more than once and left by the stagnation guard
C4_Witness ==
    /\ Returned
    /\ is_some(new_start_layer)
    /\ DOMAIN flow_snapshot # {}

\* C5: maxflow gets past the layering step only if the breadth-first layering
\* from the source ends with the final layer {sink}.
C5_MalformedRejected == Started => WellLayered(input, source_id, sink_id)

\* ------------------------------------------- container reference definitions
\* the elements of a set of numbers as an increasing sequence
RECURSIVE Ascending(_)
Ascending(S) ==
    IF S = {} THEN <<>>
    ELSE LET m == CHOOSE x \in S : \A y \in S : x <= y IN <<m>> \o Ascending(S \ {m})

\* the number of members of S below x: the id x gets when S is renumbered
Rank(S, x) == Cardinality({y \in S : y < x})

Increasing(v) == \A k \in 1 .. Len(v) - 1 : v[k] < v[k + 1]

\* the live-only view of old is what new shows, under the renumbering
ViewPreserved(old, new) ==
    LET N == LiveNodes(old)
        A == PresentArcs(old)
        nr(u) == Rank(N, u)
        ar(a) == Rank(A, a)
        out(u) == Ascending({a \in A : From(old, a) = u})
        inc(u) == Ascending({a \in A : Into(old, a) = u})
        btw(u, v) == Ascending({a \in A : From(old, a) = u /\ Into(old, a) = v})
    IN
    /\ LiveNodes(new) = 0 .. (Cardinality(N) - 1)
    /\ Len(new.node_data) = Cardinality(N)
    /\ LiveArcs(new) = 0 .. (Cardinality(A) - 1)
    /\ Len(new.arc_data) = Cardinality(A)
    /\ \A u \in N :
         /\ is_node_in(new, nr(u))
         /\ from_node(new, nr(u)) =
              [k \in 1 .. Len(out(u)) |-> <<nr(Into(old, out(u)[k])), ar(out(u)[k])>>]
         /\ into_node(new, nr(u)) =
              [k \in 1 .. Len(inc(u)) |-> <<nr(From(old, inc(u)[k])), ar(inc(u)[k])>>]
         /\ \A v \in N :
              /\ is_arc_in(new, nr(u), nr(v)) = (btw(u, v) # <<>>)
              /\ between_nodes(new, nr(u), nr(v)) =
                   [k \in 1 .. Len(btw(u, v)) |-> ar(btw(u, v)[k])]

\* tests::test_network up to the call of clean
test_network ==
    LET built == bulk_connect(add_nodes(GraphNetwork_new, <<0, 1, 2, 3, 4, 5, 6>>),
                     << <<0, 1, 2>>, <<0, 2, 3>>, <<1, 3, 2>>, <<1, 4, 0>>,
                        <<2, 3, 4>>, <<2, 4, 2>>, <<3, 5, 3>>, <<4, 5, 2>> >>)
    IN remove_node(disconnect(built, 3).net, 6).net

\* C6: clean succeeds on every reachable container, and the rebuilt container
\* shows exactly the live nodes and present arcs of the original to
\* is_node_in, is_arc_in, between_nodes, from_node and into_node.
C6_RebuildTotal ==
    call.op = "clean" => (call.ret # Panic /\ ViewPreserved(input, network))

\* C7: when clean succeeds, the live nodes and live arcs are renumbered
\* 0..k-1 and 0..m-1 in increasing order of their old ids, payloads and
\* endpoints follow the renumbering, and every traversal lists its arcs in
\* the same relative order as before (in test_network old arc 6 becomes 5).
C7_Renumbering ==
    /\ pc = "cleaned" =>
         LET N == Ascending(LiveNodes(input))
             A == Ascending(LiveArcs(input))
             nr(u) == Rank(LiveNodes(input), u)
             ar(a) == Rank(LiveArcs(input), a)
         IN
         /\ network.node_data = [j \in 1 .. Len(N) |-> At(input.node_data, N[j])]
         /\ network.arc_data = [j \in 1 .. Len(A) |-> At(input.arc_data, A[j])]
         /\ network.arc_connections =
              [j \in 1 .. Len(A) |-> [from |-> nr(From(input, A[j])),
                                      into |-> nr(Into(input, A[j]))]]
         /\ \A u \in LiveNodes(input) :
              /\ from_node(network, nr(u)) =
                   [k \in 1 .. Len(from_node(input, u)) |->
                      <<nr(from_node(input, u)[k][1]), ar(from_node(input, u)[k][2])>>]
              /\ into_node(network, nr(u)) =
                   [k \in 1 .. Len(into_node(input, u)) |->
                      <<nr(into_node(input, u)[k][1]), ar(into_node(input, u)[k][2])>>]
    /\ LET r == clean(test_network) IN
       /\ ~r.panicked
       /\ from_node(r.brand_new, 3) = << <<5, 5>> >>
       /\ into_node(r.brand_new, 3) = << <<1, 2>>, <<2, 3>> >>
       /\ At(r.brand_new.arc_connections, 5) = [from |-> 3, into |-> 5]
       /\ data_of_arc(r.brand_new, 5) = Some(3)
       /\ ~is_node_in(r.brand_new, 6)

\* a successful clean that gave a node and an arc a new id
C7_Witness ==
    /\ pc = "cleaned"
    /\ \E u \in LiveNodes(input) : Rank(LiveNodes(input), u) # u
    /\ \E a \in LiveArcs(input) : Rank(LiveArcs(input), a) # a

\* C8: every arc id that from_node, into_node or between_nodes yields on live
\* nodes is present (its slot and both its endpoints are live), and the ids
\* come in arc-creation order.
C8_TraversalPresent ==
    \A u \in LiveNodes(network) :
        /\ \A k \in DOMAIN from_node(network, u) :
               from_node(network, u)[k][2] \in PresentArcs(network)
        /\ Increasing([k \in DOMAIN from_node(network, u) |-> from_node(network, u)[k][2]])
        /\ \A k \in DOMAIN into_node(network, u) :
               into_node(network, u)[k][2] \in PresentArcs(network)
        /\ Increasing([k \in DOMAIN into_node(network, u) |-> into_node(network, u)[k][2]])
        /\ \A v \in LiveNodes(network) :
               /\ \A k \in DOMAIN between_nodes(network, u, v) :
                      between_nodes(network, u, v)[k] \in PresentArcs(network)
               /\ Increasing(between_nodes(network, u, v))

\* C9: remove_node on an absent node id and disconnect on an absent arc id
\* return None and leave the container unchanged, so that removing an id a
\* second time changes nothing.
C9_RemovalIdempotent ==
    /\ \A node \in 0 .. MaxNodes :
         LET once == remove_node(network, node) IN
         /\ ~is_node_in(network, node) => once = [net |-> network, ret |-> None]
         /\ remove_node(once.net, node) = [net |-> once.net, ret |-> None]
    /\ \A arc \in 0 .. MaxArcs :
         LET once == disconnect(network, arc) IN
         /\ (arc \notin LiveArcs(network)) => once = [net |-> network, ret |-> None]
         /\ disconnect(once.net, arc) = [net |-> once.net, ret |-> None]

\* a tombstoned node was removed a second time while a live arc remained
C9_Witness ==
    /\ call.op = "remove_node"
    /\ call.ret = None
    /\ call.args[1] < Len(network.node_data)
    /\ LiveArcs(network) # {}

\* C10: a connect step fails exactly when an endpoint is out of range or
\* tombstoned, and then leaves the container as it was; otherwise it returns
\* the next arc id and appends it to the outgoing log of from, the incoming
\* log of into and the endpoint table.
C10_Connect ==
    [][ call'.op = "connect" =>
          LET from == call'.args[1]
              into == call'.args[2]
              arc_id == Len(network.arc_data)
          IN
          IF from \notin LiveNodes(network) \/ into \notin LiveNodes(network)
          THEN call'.ret = Panic /\ network' = network
          ELSE /\ call'.ret = Some(arc_id)
               /\ At(network'.arcs_from, from) = Append(At(network.arcs_from, from), arc_id)
               /\ At(network'.arcs_into, into) = Append(At(network.arcs_into, into), arc_id)
               /\ network'.arc_connections =
                    Append(network.arc_connections, [from |-> from, into |-> into])
               /\ Len(network'.arc_data) = arc_id + 1
               /\ is_some(At(network'.arc_data, arc_id))
               /\ network'.node_data = network.node_data
               /\ \A u \in Ids(network.node_data) :
                    /\ u # from => At(network'.arcs_from, u) = At(network.arcs_from, u)
                    /\ u # into => At(network'.arcs_into, u) = At(network.arcs_into, u)
               /\ \A a \in Ids(network.arc_data) :
                    At(network'.arc_data, a) = At(network.arc_data, a)
    ]_vars

\* a connect that failed on a tombstoned into while from was live
C10_Witness ==
    /\ call.op = "connect"
    /\ call.ret = Panic
    /\ call.args[1] \in LiveNodes(network)
    /\ call.args[2] < Len(network.node_data)

\* C11: without a rebuild, add_node returns the number of nodes created so
\* far and connect the number of arcs created so far; no slot is ever handed
\* out again, a live id keeps its payload, a tombstoned id stays tombstoned,
\* and an arc keeps the endpoint pair recorded when it was created.
C11_IdentifierStability ==
    [][ pc' # "cleaned" =>
          /\ call'.op = "add_node" =>
               /\ call'.ret = Some(Len(network.node_data))
               /\ Len(network'.node_data) = Len(network.node_data) + 1
               /\ At(network'.node_data, Len(network.node_data)) = Some(Len(network.node_data))
          /\ (call'.op = "connect" /\ call'.ret # Panic) =>
               /\ call'.ret = Some(Len(network.arc_data))
               /\ Len(network'.arc_data) = Len(network.arc_data) + 1
          /\ Len(network'.node_data) >= Len(network.node_data)
          /\ Len(network'.arc_data) >= Len(network.arc_data)
          /\ \A u \in Ids(network.node_data) :
               At(network'.node_data, u) \in {At(network.node_data, u), None}
          /\ \A a \in Ids(network.arc_data) :
               /\ At(network'.arc_data, a) \in {At(network.arc_data, a), None}
               /\ At(network'.arc_connections, a) = At(network.arc_connections, a)
    ]_vars

\* add_node has just returned a fresh id although a smaller id is tombstoned,
\* and a live arc created before that removal is still in place
C11_Witness ==
    /\ call.op = "add_node"
    /\ \E u \in Ids(network.node_data) : ~is_some(At(network.node_data, u)) /\ Some(u) # call.ret
    /\ LiveArcs(network) # {}

\* the run of maxflow(s, t) on the network g, once it has been started
RunOf(g, s, t) == pc # "idle" /\ input = g /\ source_id = s /\ sink_id = t

\* C12: maxflow(0, 5) on network_instance1 does not abort, and when it has
\* returned the flows on the arcs into node 5 sum to 5.
C12_Scenario1 ==
    RunOf(network_instance1, 0, 5) =>
        /\ pc # "panicked"
        /\ Returned => InFlux(network, 5) = 5

\* maxflow(0, 5) on network_instance1 has returned
C12_Witness == RunOf(network_instance1, 0, 5) /\ Returned

\* C13: maxflow(0, 8) on network_instance2 does not abort, and when it has
\* returned the flow into node 8 equals the flow out of node 0 and no arc
\* carries more than its capacity.
C13_Scenario2 ==
    RunOf(network_instance2, 0, 8) =>
        /\ pc # "panicked"
        /\ Returned =>
             /\ InFlux(network, 8) = OutFlux(network, 0)
             /\ \A a \in LiveArcs(network) : FlowOf(network)[a] <= CapacityOf(network)[a]

\* maxflow(0, 8) on network_instance2 has returned
C13_Witness == RunOf(network_instance2, 0, 8) /\ Returned

\* C14: maxflow(0, 2) on network_instance3 does not abort, and when it has
\* returned both arcs carry flow 1.
C14_Scenario3 ==
    RunOf(network_instance3, 0, 2) =>
        /\ pc # "panicked"
        /\ Returned => FlowOf(network) = (0 :> 1 @@ 1 :> 1)

\* maxflow(0, 2) on network_instance3 has returned
C14_Witness == RunOf(network_instance3, 0, 2) /\ Returned

\* C15: within a run of maxflow, no step raises the flow of an arc that is
\* closed (open = false) when the step begins.
C15_ClosedNeverGains ==
    [][ (pc = "maximize" \/ pc = "balance") =>
          \A a \in LiveArcs(network) :
              ~At(network.arc_data, a).val.open =>
                  At(network'.arc_data, a).val.flow <= At(network.arc_data, a).val.flow
    ]_vars

\* C16: in the layers the layering step returns, no node id occurs twice,
\* neither in two layers nor twice in one layer.
C16_OneLayerPerNode ==
    Started =>
        \A i, j \in DOMAIN layers :
            \A k \in DOMAIN layers[i], l \in DOMAIN layers[j] :
                layers[i][k] = layers[j][l] => (i = j /\ k = l)

\* C17: on an input the layering check accepted, no call of balance_incoming
\* meets a node whose incoming flux is below its outgoing flux, and none
\* empties a node's rollback stack before the node is balanced
\* (the two panics of lines 223-225 and 235-241; arithmetic left unchecked).
C17_NoConsistencyPanic ==
    pc = "balance" => ~balance_incoming(layers, network, FALSE).panicked

\* the numbers of arcs of the simple directed paths of live arcs from u to t
\* that avoid the nodes of visited
RECURSIVE PathLens(_, _, _, _)
PathLens(g, u, t, visited) ==
    IF u = t THEN {0}
    ELSE UNION {{1 + l : l \in PathLens(g, Into(g, a), t, visited \cup {Into(g, a)})} :
                    a \in {b \in LiveArcs(g) : From(g, b) = u /\ Into(g, b) \notin visited}}

PathsBetween(g, s, t) == PathLens(g, s, t, {s})
Shortest(S) == CHOOSE k \in S : \A l \in S : k <= l

\* C18 as stated: once the layering accepted, every directed path of live
\* arcs from the source to the sink has the same number of arcs, the depth of
\* the sink layer.
C18_UniformPathLength ==
    Started => PathsBetween(network, source_id, sink_id) \subseteq {Len(layers) - 1}

\* C18 amended: once the layering accepted with source # sink, the shortest
\* directed path from the source to the sink has as many arcs as the depth of
\* the sink layer, and every other node reachable from the source is reached
\* by a shorter path; longer paths to the sink may exist.
C18_ShortestPathLength ==
    (Started /\ source_id # sink_id) =>
        /\ PathsBetween(network, source_id, sink_id) # {}
        /\ Shortest(PathsBetween(network, source_id, sink_id)) = Len(layers) - 1
        /\ \A u \in LiveNodes(network) \ {sink_id} :
               PathsBetween(network, source_id, u) # {} =>
                   Shortest(PathsBetween(network, source_id, u)) < Len(layers) - 1

\* an accepted input with source-to-sink paths of different lengths
C18_Witness ==
    /\ Started
    /\ source_id # sink_id
    /\ Cardinality(PathsBetween(network, source_id, sink_id)) > 1

\* the layers in breadth-first discovery order, before the sort of lines 87-97
Discovered ==
    group_loop([net |-> clean_network(input), layers |-> << <<source_id>> >>,
                panicked |-> FALSE]).layers

\* a live arc a -> b exists and no live arc b -> a exists
Precedes(g, a, b) ==
    /\ \E x \in LiveArcs(g) : From(g, x) = a /\ Into(g, x) = b
    /\ ~\E x \in LiveArcs(g) : From(g, x) = b /\ Into(g, x) = a

\* C19: in every returned layer, a node with a live arc to another node of
\* the layer (and no arc back) stands before it, and two nodes not related by
\* such an arc stand in their breadth-first discovery order.
C19_IntraLayerOrder ==
    Started =>
        \A d \in DOMAIN layers :
            \A i, j \in DOMAIN layers[d] :
                /\ Precedes(network, layers[d][i], layers[d][j]) => i < j
                /\ ( /\ layers[d][i] # layers[d][j]
                     /\ ~Precedes(network, layers[d][i], layers[d][j])
                     /\ ~Precedes(network, layers[d][j], layers[d][i])
                     /\ i < j )
                   => \E k, l \in DOMAIN Discovered[d] :
                          /\ k < l
                          /\ Discovered[d][k] = layers[d][i]
                          /\ Discovered[d][l] = layers[d][j]

\* the nodes reached from seen along live arcs whose flow is below capacity
RECURSIVE ReachUnsaturated(_, _)
ReachUnsaturated(g, seen) ==
    LET next == {Into(g, a) : a \in {b \in LiveArcs(g) :
                     /\ From(g, b) \in seen
                     /\ At(g.arc_data, b).val.flow < At(g.arc_data, b).val.capacity}} IN
    IF next \subseteq seen THEN seen ELSE ReachUnsaturated(g, seen \cup next)

\* the loop ended because balance_incoming returned None
EndedByNone == Returned /\ ~is_some(new_start_layer)

\* C20: when the loop ends because balance_incoming reports none, every
\* directed path of live arcs from the source to the sink holds a saturated
\* arc: the sink is not reached from the source along unsaturated arcs.
C20_BlockingFlow ==
    (EndedByNone /\ source_id # sink_id) =>
        sink_id \notin ReachUnsaturated(network, {source_id})

\* a run ended by None on an input with a source-to-sink path, with an arc
\* left below its capacity
C20_Witness ==
    /\ EndedByNone
    /\ source_id # sink_id
    /\ PathsBetween(network, source_id, sink_id) # {}
    /\ \E a \in LiveArcs(network) :
           At(network.arc_data, a).val.flow < At(network.arc_data, a).val.capacity

\* the run was started by MaxflowAgain on a network that carries the flow
\* state of the earlier run
Rerun == pc # "idle" /\ input # clean_network(input)

\* the run stands before its first maximize_outgoing
Entered == pc = "maximize" /\ flow_snapshot = <<>>

\* C21: a second maxflow on the same graph with the same source and sink
\* starts from reset stacks, flows and open flags, returns as the first did,
\* leaves on every arc the flow the first run left, and leaves node ids,
\* arc ids, endpoints and capacities as they were.
C21_Repeatable ==
    Rerun =>
        /\ pc # "panicked"
        /\ Entered =>
               /\ \A u \in LiveNodes(network) : At(network.node_data, u).val.stack = <<>>
               /\ \A a \in LiveArcs(network) :
                      /\ At(network.arc_data, a).val.flow = 0
                      /\ At(network.arc_data, a).val.open
        /\ Returned => FlowOf(network) = FlowOf(input)
        /\ LiveNodes(network) = LiveNodes(input)
        /\ LiveArcs(network) = LiveArcs(input)
        /\ Len(network.node_data) = Len(input.node_data)
        /\ Len(network.arc_data) = Len(input.arc_data)
        /\ network.arc_connections = input.arc_connections
        /\ CapacityOf(network) = CapacityOf(input)

\* a second run returned on a network the first run had left with flow on an
\* arc and with a closed arc
C21_Witness ==
    /\ Rerun
    /\ Returned
    /\ \E a \in LiveArcs(input) : At(input.arc_data, a).val.flow > 0
    /\ \E a \in LiveArcs(input) : ~At(input.arc_data, a).val.open

\* C22: on an accepted input no pass of the loop takes a u32 value below
\* zero: capacity - flow at the source, incoming flux - consumed flux and
\* preflow - flow in the distribution, flow - min(delta, excess) in the
\* rollback (nor does any sum leave the u32 range).
C22_NoUnderflow ==
    /\ pc = "maximize" => ~maximize_outgoing(layers, start_layer, network, FALSE).overflowed
    /\ pc = "balance" => ~balance_incoming(layers, network, FALSE).overflowed

\* a later round of the loop reached after a rollback took part of the flow
\* of an arc
C22_Witness ==
    /\ pc = "maximize"
    /\ DOMAIN flow_snapshot # {}
    /\ \E a \in LiveArcs(network) :
           /\ ~At(network.arc_data, a).val.open
           /\ At(network.arc_data, a).val.flow > 0
           /\ At(network.arc_data, a).val.flow < At(network.arc_data, a).val.capacity

StackOf(g, u) == At(g.node_data, u).val.stack
IsPrefix(s, t) == Len(s) <= Len(t) /\ SubSeq(t, 1, Len(s)) = s

\* The discipline of the rollback stacks over one step, End(g, a) being the
\* endpoint of arc a whose stack holds the entries of a:
\*  - every entry of a stack names a live arc a with End(g, a) = the node and
\*    a delta above zero;
\*  - maximize_outgoing only pushes, balance_incoming only pops from the top;
\*  - an arc loses flow in balance_incoming only if an entry naming it was
\*    popped from the stack of End(g, a), and loses at most the popped deltas.
StackDiscipline(End(_, _)) ==
    /\ pc' \in {"maximize", "balance", "done"} =>
           \A u \in LiveNodes(network') :
               \A k \in DOMAIN StackOf(network', u) :
                   LET entry == StackOf(network', u)[k] IN
                   /\ entry[1] \in LiveArcs(network')
                   /\ End(network', entry[1]) = u
                   /\ u32_lt(0, entry[2])
    /\ (pc = "maximize" /\ pc' # "panicked") =>
           \A u \in LiveNodes(network) :
               IsPrefix(StackOf(network, u), StackOf(network', u))
    /\ (pc = "balance" /\ pc' # "panicked") =>
           /\ \A u \in LiveNodes(network) :
                  IsPrefix(StackOf(network', u), StackOf(network, u))
           /\ \A a \in LiveArcs(network) :
                  LET old == At(network.arc_data, a).val.flow
                      new == At(network'.arc_data, a).val.flow
                      u == End(network, a)
                      popped == {k \in DOMAIN StackOf(network, u) :
                                    /\ k > Len(StackOf(network', u))
                                    /\ StackOf(network, u)[k][1] = a}
                  IN new # old =>
                         /\ new < old
                         /\ popped # {}
                         /\ old - new <=
                                SumOver(popped, [k \in popped |-> StackOf(network, u)[k][2]])

\* C23 as stated: every entry on a node's rollback stack records an increase
\* of flow on an outgoing arc of that node, with delta > 0, and entries are
\* undone last in, first out.
C23_OutgoingArcEntries == [][StackDiscipline(From)]_vars

\* C23 amended: every entry on a node's rollback stack records an increase
\* of flow on an incoming arc of that node (the push goes to the stack of the
\* arc's destination), with delta > 0, and entries are undone last in, first
\* out.
C23_IncomingArcEntries == [][StackDiscipline(Into)]_vars

\* a rollback has closed an arc that kept part of its flow while stacks still
\* hold entries
C23_Witness ==
    /\ Started
    /\ \E a \in LiveArcs(network) :
           ~At(network.arc_data, a).val.open /\ At(network.arc_data, a).val.flow > 0
    /\ \E u \in LiveNodes(network) : StackOf(network, u) # <<>>

====
